---------------------------- MODULE Spec2Model ----------------------------
(***************************************************************************)
(* Model of LiquidityPartySwapEncoder                                      *)
(* (src/encoding/evm/swap_encoder/liquidity_party.rs).                     *)
(*                                                                         *)
(* Bytes values (tycho_common::Bytes, of which models::Address is an       *)
(* alias) are sequences of naturals below 256; a component id (a String)   *)
(* is a sequence of one-character strings.  A Result is a record           *)
(* [ok, val, kind, msg]: Ok(v) carries the value, Err(kind, msg) carries   *)
(* the EncodingError variant and its message and no value.                 *)
(***************************************************************************)
EXTENDS Integers, Sequences, FiniteSets, TLC

VARIABLES
    encoders,   \* the live encoder instances, in creation order
    built,      \* the executor addresses handed to new(), in order
    call,       \* the sequential caller's encode_swap call and its result
    th,         \* per thread: the encode_swap call it is executing, and where
    got         \* what the last executor_address() call returned, and on whom

vars == <<encoders, built, call, th, got>>

-----------------------------------------------------------------------------
(* Results and options *)

Ok(v) == [ok |-> TRUE, val |-> v, kind |-> "", msg |-> ""]

Err(k, m) == [ok |-> FALSE, val |-> <<>>, kind |-> k, msg |-> m]

None == <<>>

Some(v) == <<v>>

-----------------------------------------------------------------------------
(* Bounds of the model *)

\* short pool token lists are all sequences over ListTokens up to this length
MaxShort == 2

\* the padded token lists put the last token up to this many places past 255
MaxOver == 1

\* clones made of the constructed encoder
MaxClones == 1

-----------------------------------------------------------------------------
(* Values taken from tests::test_encode_liquidityparty *)

IdTest == <<"0", "x", "f", "A", "0", "b", "e", "6", "1", "4", "8", "F", "6", "6", "A", "6", "4", "9", "9", "6", "6", "6", "c", "f", "7", "9", "0", "d", "6", "4", "7", "D", "0", "0", "d", "a", "B", "7", "6", "9", "0", "4">>

USDT == <<218, 193, 127, 149, 141, 46, 229, 35, 162, 32, 98, 6, 153, 69, 151, 193, 61, 131, 30, 199>>

USDC == <<160, 184, 105, 145, 198, 33, 139, 54, 193, 209, 157, 74, 46, 158, 176, 206, 54, 6, 235, 72>>

WBTC == <<34, 96, 250, 197, 229, 84, 42, 119, 58, 164, 79, 188, 254, 223, 124, 25, 59, 194, 197, 153>>

WETH == <<192, 42, 170, 57, 178, 35, 254, 141, 10, 14, 92, 79, 39, 234, 217, 8, 60, 117, 108, 194>>

UNI == <<31, 152, 64, 168, 93, 90, 245, 191, 29, 23, 98, 249, 37, 189, 173, 220, 66, 1, 249, 132>>

WSOL == <<211, 26, 89, 200, 90, 233, 216, 237, 239, 236, 65, 29, 68, 143, 144, 132, 21, 113, 184, 156>>

TRX == <<80, 50, 124, 108, 90, 20, 220, 173, 231, 7, 171, 173, 46, 39, 235, 81, 125, 248, 122, 181>>

AAVE == <<127, 198, 101, 0, 200, 74, 118, 173, 126, 156, 147, 67, 123, 252, 90, 195, 62, 45, 218, 233>>

PEPE == <<105, 130, 80, 129, 69, 69, 76, 227, 37, 221, 190, 71, 162, 93, 78, 195, 210, 49, 25, 51>>

SHIB == <<149, 173, 97, 176, 161, 80, 215, 146, 25, 220, 246, 78, 30, 108, 192, 31, 11, 100, 196, 206>>

TestTokens == <<USDT, USDC, WBTC, WETH, UNI, WSOL, TRX, AAVE, PEPE, SHIB>>

BOB == <<29, 150, 242, 246, 190, 241, 32, 46, 76, 225, 255, 109, 173, 12, 44, 176, 2, 134, 29, 62>>

TestExecutor == <<84, 55, 120, 152, 123, 41, 60, 126, 140, 240, 114, 43, 178, 233, 53, 186, 111, 64, 104, 212>>

TestExpected == <<250, 11, 230, 20, 143, 102, 166, 73, 150, 102, 207, 121, 13, 100, 125, 0, 218, 183, 105, 4, 160, 184, 105, 145, 198, 33, 139, 54, 193, 209, 157, 74, 46, 158, 176, 206, 54, 6, 235, 72, 1, 5, 29, 150, 242, 246, 190, 241, 32, 46, 76, 225, 255, 109, 173, 12, 44, 176, 2, 134, 29, 62, 1>>

\* Bytes::zero(n)
Zero(n) == [i \in 1..n |-> 0]

-----------------------------------------------------------------------------
(* The inputs the model draws from *)

\* the test's id without the 0x prefix and in lower case: the same address
IdLower == <<"f", "a", "0", "b", "e", "6", "1", "4", "8", "f", "6", "6", "a", "6", "4", "9", "9", "6", "6", "6", "c", "f", "7", "9", "0", "d", "6", "4", "7", "d", "0", "0", "d", "a", "b", "7", "6", "9", "0", "4">>

\* another pool
IdOther == <<"0", "x", "5", "4", "3", "7", "7", "8", "9", "8", "7", "b", "2", "9", "3", "C", "7", "E", "8", "C", "f", "0", "7", "2", "2", "B", "B", "2", "e", "9", "3", "5", "b", "a", "6", "f", "4", "0", "6", "8", "d", "5">>

\* a character that is no hex digit
IdNonHex == [IdTest EXCEPT ![7] = "g"]

\* an odd number of hex digits
IdOdd == SubSeq(IdTest, 1, Len(IdTest) - 1)

\* well-formed hex of 19 bytes
IdShort == SubSeq(IdTest, 1, Len(IdTest) - 2)

ComponentIds == {IdTest, IdLower, IdOther, IdNonHex, IdOdd, IdShort}

\* a token value of 19 bytes (Bytes has no fixed length)
ShortToken == SubSeq(USDT, 1, Len(USDT) - 1)

ShortReceiver == SubSeq(BOB, 1, Len(BOB) - 1)

ALICE == [BOB EXCEPT ![1] = 170]

OtherExecutor == [TestExecutor EXCEPT ![1] = 85]

ListTokens == {USDC, WSOL}

ShortLists == UNION {[1..n -> ListTokens] : n \in 0..MaxShort}

\* the i-th filler token of a padded list, distinct from every named token
PadToken(i) == [k \in 1..Len(USDT) |->
                   IF k = Len(USDT) THEN i % 256
                   ELSE IF k = Len(USDT) - 1 THEN i \div 256
                   ELSE 255]

Pad(n) == [i \in 1..n |-> PadToken(i)]

\* USDT first, then n fillers, then USDC and WSOL at positions n+1 and n+2
PaddedList(n) == <<USDT>> \o Pad(n) \o <<USDC, WSOL>>

PaddedLists == {PaddedList(n) : n \in 254..(254 + MaxOver)}

TokenLists == ShortLists \cup {TestTokens, <<ShortToken, USDC>>} \cup PaddedLists

TokensIn == {USDC, WSOL, USDT, ShortToken}

TokensOut == {USDC, WSOL, USDT}

Receivers == {BOB, ALICE, ShortReceiver}

TransferType == {"TransferFrom", "Transfer", "None"}

Chains == {"Ethereum", "Base"}

\* Option<HashMap<String, String>>: absent, empty, or with a key
Configs == {None, Some({}), Some({<<"pool_manager", "0x00">>})}

Executors == {TestExecutor, OtherExecutor}

Swaps == [component : [id : ComponentIds, tokens : TokenLists],
          token_in : TokensIn, token_out : TokensOut]

\* the context fields this encoder does not serialise
RoutingMeta == [exact_out : BOOLEAN,
                router_address : {None, Some(Zero(20))},
                group_tokens : {<<USDC, WSOL>>, <<USDT, USDT>>},
                historical_trade : BOOLEAN]

Context(receiver, transfer_type, meta) ==
    [receiver |-> receiver, transfer_type |-> transfer_type,
     exact_out |-> meta.exact_out, router_address |-> meta.router_address,
     group_token_in |-> meta.group_tokens[1],
     group_token_out |-> meta.group_tokens[2],
     historical_trade |-> meta.historical_trade]

\* the metadata of the test's context, and the opposite choice in every field
TestMeta == [exact_out |-> FALSE, router_address |-> Some(Zero(20)),
             group_tokens |-> <<USDC, WSOL>>, historical_trade |-> FALSE]

OtherMeta == [exact_out |-> TRUE, router_address |-> None,
              group_tokens |-> <<USDT, USDT>>, historical_trade |-> TRUE]

-----------------------------------------------------------------------------
(* Library conversions the encoder calls *)

HexDigits == {"0", "1", "2", "3", "4", "5", "6", "7", "8", "9",
              "a", "b", "c", "d", "e", "f", "A", "B", "C", "D", "E", "F"}

\* the value of one hex digit, either case
HexVal(c) ==
    CASE c = "0" -> 0 [] c = "1" -> 1 [] c = "2" -> 2 [] c = "3" -> 3
      [] c = "4" -> 4 [] c = "5" -> 5 [] c = "6" -> 6 [] c = "7" -> 7
      [] c = "8" -> 8 [] c = "9" -> 9
      [] c \in {"a", "A"} -> 10 [] c \in {"b", "B"} -> 11
      [] c \in {"c", "C"} -> 12 [] c \in {"d", "D"} -> 13
      [] c \in {"e", "E"} -> 14 [] c \in {"f", "F"} -> 15

\* hex::decode: an odd number of digits or a non-hex character is an error,
\* otherwise one byte per two digits
HexDecode(s) ==
    IF Len(s) % 2 # 0 THEN Err("ParseBytesError", "Invalid hex: odd length")
    ELSE IF \E i \in 1..Len(s) : s[i] \notin HexDigits
         THEN Err("ParseBytesError", "Invalid hex: invalid character")
    ELSE Ok([i \in 1..(Len(s) \div 2) |->
                16 * HexVal(s[2 * i - 1]) + HexVal(s[2 * i])])

\* Address::from_str, i.e. <Bytes as FromStr>::from_str: an optional "0x"
\* prefix is stripped and the rest hex-decoded, to a Bytes of any length
FromStr(s) ==
    IF Len(s) >= 2 /\ s[1] = "0" /\ s[2] = "x"
    THEN HexDecode(SubSeq(s, 3, Len(s)))
    ELSE HexDecode(s)

\* evm::utils::bytes_to_address: a Bytes of exactly 20 bytes converts to an
\* (alloy) address, any other length is an encoding error
bytes_to_address(address) ==
    IF Len(address) = 20 THEN Ok(address)
    ELSE Err("FatalError", "Invalid address")

\* the discriminant of a TransferType
TransferTypeValue(t) ==
    CASE t = "TransferFrom" -> 0 [] t = "Transfer" -> 1 [] t = "None" -> 2

\* `x as u8`: the low eight bits
AsU8(x) == x % 256

\* u8::to_be_bytes: the one byte
to_be_bytes(b) == <<b>>

\* Iterator::position(|addr| addr == x): the zero-based place of the first
\* element equal to x, None when there is none
Position(list, x) ==
    LET hits == {i \in 1..Len(list) : list[i] = x}
    IN  IF hits = {} THEN None
        ELSE Some((CHOOSE i \in hits : \A j \in hits : i <= j) - 1)

RECURSIVE Concat(_)
\* abi_encode_packed of a tuple of addresses and one-byte arrays: the
\* fields' bytes one after the other, unpadded
Concat(fields) ==
    IF fields = <<>> THEN <<>> ELSE Head(fields) \o Concat(Tail(fields))

-----------------------------------------------------------------------------
(* LiquidityPartySwapEncoder *)

TokenInNotFound == Err("FatalError", "Token in not found in pool tokens")

TokenOutNotFound == Err("FatalError", "Token out not found in pool tokens")

\* the id error raised as a recoverable one
InvalidComponentId_Recoverable ==
    Err("RecoverableError", "LiqP swap encoder: invalid component id")

InvalidComponentId ==
    Err("FatalError", "LiqP swap encoder: invalid component id")

\* the index as get_token_indexes returns it
IndexCast(position) == AsU8(position)

\* the output token looked up, and reported, before the input token
get_token_indexes_OutFirst(self, swap) ==
    LET token_addresses == swap.component.tokens
        token_in == swap.token_in
        token_out == swap.token_out
        token_in_idx == Position(token_addresses, token_in)
        token_out_idx == Position(token_addresses, token_out)
    IN  IF token_out_idx = None THEN TokenOutNotFound
        ELSE IF token_in_idx = None THEN TokenInNotFound
        ELSE Ok(<<token_in, IndexCast(token_in_idx[1]),
                  IndexCast(token_out_idx[1])>>)

get_token_indexes(self, swap) ==
    LET token_addresses == swap.component.tokens
        token_in == swap.token_in
        token_out == swap.token_out
        token_in_idx == Position(token_addresses, token_in)
        token_out_idx == Position(token_addresses, token_out)
    IN  IF token_in_idx = None THEN TokenInNotFound
        ELSE IF token_out_idx = None THEN TokenOutNotFound
        ELSE Ok(<<token_in, IndexCast(token_in_idx[1]),
                  IndexCast(token_out_idx[1])>>)

\* the router's address, when there is one, packed in place of the receiver
SwapArgs_Router(self, pool_addr, idx, encoding_context) ==
    <<bytes_to_address(pool_addr),
      bytes_to_address(idx[1]),
      Ok(to_be_bytes(idx[2])),
      Ok(to_be_bytes(idx[3])),
      bytes_to_address(IF encoding_context.router_address = None
                       THEN encoding_context.receiver
                       ELSE encoding_context.router_address[1]),
      Ok(to_be_bytes(AsU8(TransferTypeValue(encoding_context.transfer_type))))>>

\* the fields of the args tuple, left to right; idx is what
\* get_token_indexes returned: (token_in, token_in_idx, token_out_idx)
SwapArgs(self, pool_addr, idx, encoding_context) ==
    <<bytes_to_address(pool_addr),
      bytes_to_address(idx[1]),
      Ok(to_be_bytes(idx[2])),
      Ok(to_be_bytes(idx[3])),
      bytes_to_address(encoding_context.receiver),
      Ok(to_be_bytes(AsU8(TransferTypeValue(encoding_context.transfer_type))))>>

\* building the tuple stops at the first conversion that fails (`?`)
PackArgs(args) ==
    IF \E i \in 1..Len(args) : ~args[i].ok
    THEN args[CHOOSE i \in 1..Len(args) :
                  ~args[i].ok /\ \A j \in 1..(i - 1) : args[j].ok]
    ELSE Ok(Concat([i \in 1..Len(args) |-> args[i].val]))

encode_swap(self, swap, encoding_context) ==
    LET pool_addr == FromStr(swap.component.id)
    IN  IF ~pool_addr.ok THEN InvalidComponentId
        ELSE LET idx == get_token_indexes(self, swap)
             IN  IF ~idx.ok THEN idx
                 ELSE PackArgs(SwapArgs(self, pool_addr.val, idx.val,
                                        encoding_context))

new(executor_address, chain, config) ==
    Ok([executor_address |-> executor_address])

executor_address(self) == self.executor_address

\* a clone built afresh instead of copied
clone_box_Default(self) == [executor_address |-> Zero(20)]

clone_box(self) == self

-----------------------------------------------------------------------------
(* The sequential caller: one encoder, one encode_swap call at a time *)

Idle == [pc |-> "idle"]

InitSeq ==
    /\ \E e \in Executors, chain \in Chains, config \in Configs :
          /\ encoders = <<new(e, chain, config).val>>
          /\ built = <<e>>
    /\ call = Idle
    /\ th = <<>>
    /\ got = None

\* encode_swap(&swap, &encoding_context) on the encoder
EncodeSwap ==
    /\ call.pc = "idle"
    /\ \E swap \in Swaps, receiver \in Receivers, tt \in TransferType :
          LET ctx == Context(receiver, tt, TestMeta)
          IN  call' = [pc |-> "done", swap |-> swap, ctx |-> ctx,
                       result |-> encode_swap(encoders[1], swap, ctx)]
    /\ UNCHANGED <<encoders, built, th, got>>

\* the caller takes the result
Return ==
    /\ call.pc = "done"
    /\ call' = Idle
    /\ UNCHANGED <<encoders, built, th, got>>

NextSeq == EncodeSwap \/ Return

Spec == InitSeq /\ [][NextSeq]_vars

\* the test's call returns the test's expected bytes
TestVector ==
    (/\ call.pc = "done"
     /\ call.swap = [component |-> [id |-> IdTest, tokens |-> TestTokens],
                     token_in |-> USDC, token_out |-> WSOL]
     /\ call.ctx.receiver = BOB
     /\ call.ctx.transfer_type = "Transfer")
    => call.result = Ok(TestExpected)

TestVectorReached ==
    ~(/\ call.pc = "done"
      /\ call.swap = [component |-> [id |-> IdTest, tokens |-> TestTokens],
                      token_in |-> USDC, token_out |-> WSOL]
      /\ call.ctx.receiver = BOB
      /\ call.ctx.transfer_type = "Transfer")

-----------------------------------------------------------------------------
(* Vocabulary of the properties, stated without the encoder's operators *)

Done == call.pc = "done"

\* the text of an address: an optional "0x", then exactly 40 hex digits
IsAddressText(s) ==
    LET from == IF Len(s) >= 2 /\ s[1] = "0" /\ s[2] = "x" THEN 3 ELSE 1
    IN  /\ Len(s) - from + 1 = 40
        /\ \A i \in from..Len(s) : s[i] \in HexDigits

Present(list, x) == \E i \in 1..Len(list) : list[i] = x

\* the zero-based place of the first occurrence of x in list
FirstPlace(list, x) ==
    CHOOSE p \in 0..(Len(list) - 1) :
        /\ list[p + 1] = x
        /\ \A q \in 0..(p - 1) : list[q + 1] # x

\* the call's pool id, token and receiver are addresses, and both tokens are
\* in the pool's list
BothPresent ==
    /\ Present(call.swap.component.tokens, call.swap.token_in)
    /\ Present(call.swap.component.tokens, call.swap.token_out)

WellFormed ==
    /\ IsAddressText(call.swap.component.id)
    /\ Len(call.swap.token_in) = 20
    /\ Len(call.ctx.receiver) = 20

InPlace == FirstPlace(call.swap.component.tokens, call.swap.token_in)

OutPlace == FirstPlace(call.swap.component.tokens, call.swap.token_out)

-----------------------------------------------------------------------------
(* C1 *)

\* the layout of the bytes returned
LayoutHolds ==
    /\ call.result.ok
    /\ Len(call.result.val) = 63
    /\ SubSeq(call.result.val, 1, 20) = FromStr(call.swap.component.id).val
    /\ SubSeq(call.result.val, 21, 40) = call.swap.token_in
    /\ call.result.val[41] = InPlace
    /\ call.result.val[42] = OutPlace
    /\ SubSeq(call.result.val, 43, 62) = call.ctx.receiver
    /\ call.result.val[63] = TransferTypeValue(call.ctx.transfer_type)

\* C1: for every pool P with an address and tokens a, b in P's list (a and
\* the receiver being addresses), encode_swap succeeds with 63 bytes: P's
\* address, a, a's position, b's position, the receiver, the transfer type.
C1_Layout ==
    (Done /\ WellFormed /\ BothPresent) => LayoutHolds

\* the same, for tokens whose positions are below 256
C1_LayoutInByteRange ==
    (Done /\ WellFormed /\ BothPresent /\ InPlace < 256 /\ OutPlace < 256)
        => LayoutHolds

-----------------------------------------------------------------------------
(* C2 *)

\* C2 as stated: whenever the input or the output token is absent from the
\* list, the result is a FatalError naming the missing side, without bytes.
C2_MissingTokenAlways ==
    (Done /\ ~BothPresent) =>
        /\ ~call.result.ok
        /\ call.result.val = <<>>
        /\ call.result.kind = "FatalError"
        /\ call.result.msg =
              IF ~Present(call.swap.component.tokens, call.swap.token_in)
              THEN "Token in not found in pool tokens"
              ELSE "Token out not found in pool tokens"

\* C2, amended: when the component id is the text of an address and the
\* input or the output token is absent from the list, the result is a
\* FatalError without bytes whose message names the input side when the
\* input token is absent and the output side otherwise.
C2_MissingToken ==
    (Done /\ IsAddressText(call.swap.component.id) /\ ~BothPresent) =>
        /\ ~call.result.ok
        /\ call.result.val = <<>>
        /\ call.result.kind = "FatalError"
        /\ call.result.msg =
              IF ~Present(call.swap.component.tokens, call.swap.token_in)
              THEN "Token in not found in pool tokens"
              ELSE "Token out not found in pool tokens"

\* a call with the input present and the output absent got the output error
C2_Witness ==
    /\ Done
    /\ call.swap.component.id = IdTest
    /\ Present(call.swap.component.tokens, call.swap.token_in)
    /\ ~Present(call.swap.component.tokens, call.swap.token_out)
    /\ call.result.msg = "Token out not found in pool tokens"

-----------------------------------------------------------------------------
(* C3 *)

-----------------------------------------------------------------------------
(* C4 *)

\* the tuple of a call: the pool's address, the tokens, the receiver and the
\* transfer type
TupleOf(swap, ctx) ==
    <<FromStr(swap.component.id).val, swap.token_in, swap.token_out,
      ctx.receiver, ctx.transfer_type>>

\* the calls on the same token list as the call made
SameListCalls ==
    {<<[call.swap EXCEPT !.component.id = id, !.token_in = a, !.token_out = b],
       [call.ctx EXCEPT !.receiver = r, !.transfer_type = tt]>> :
        id \in ComponentIds, a \in TokensIn, b \in TokensOut,
        r \in Receivers, tt \in TransferType}

\* C4: within one token list, two calls whose tuples differ in a field and
\* that both succeed return different bytes.
C4_Injective ==
    (Done /\ call.result.ok) =>
        \A other \in SameListCalls :
            LET r == encode_swap(encoders[1], other[1], other[2])
            IN  (r.ok /\ TupleOf(other[1], other[2]) # TupleOf(call.swap, call.ctx))
                    => r.val # call.result.val

\* the same, for calls whose tokens' positions are all below 256
C4_InjectiveInByteRange ==
    (Done /\ call.result.ok /\ InPlace < 256 /\ OutPlace < 256) =>
        \A other \in SameListCalls :
            LET r == encode_swap(encoders[1], other[1], other[2])
                list == other[1].component.tokens
            IN  (/\ r.ok
                 /\ TupleOf(other[1], other[2]) # TupleOf(call.swap, call.ctx)
                 /\ FirstPlace(list, other[1].token_in) < 256
                 /\ FirstPlace(list, other[1].token_out) < 256)
                    => r.val # call.result.val

-----------------------------------------------------------------------------
(* C5 *)

\* C5: a successful call's index bytes are the tokens' true positions, and a
\* token at position 256 or more gives a FatalError, not a truncated byte.
C5_IndexFitsByte ==
    Done =>
        /\ call.result.ok =>
              /\ call.result.val[41] = InPlace
              /\ call.result.val[42] = OutPlace
        /\ (BothPresent /\ (InPlace >= 256 \/ OutPlace >= 256)) =>
              /\ ~call.result.ok
              /\ call.result.kind = "FatalError"

-----------------------------------------------------------------------------
(* C9 *)

\* C9: the pool id is validated first, then the input token, then the output
\* token: a malformed id gives the component-id error also when tokens are
\* absent, and a valid id with both tokens absent gives the "token in" error.
C9_ValidationOrder ==
    Done =>
        /\ ~IsAddressText(call.swap.component.id) =>
              call.result = InvalidComponentId
        /\ (/\ IsAddressText(call.swap.component.id)
            /\ ~Present(call.swap.component.tokens, call.swap.token_in)
            /\ ~Present(call.swap.component.tokens, call.swap.token_out)) =>
              call.result = TokenInNotFound

\* the same, a malformed id being one that does not decode as hex
C9_OrderOfTheCode ==
    Done =>
        /\ ~FromStr(call.swap.component.id).ok =>
              call.result = InvalidComponentId
        /\ (/\ FromStr(call.swap.component.id).ok
            /\ ~Present(call.swap.component.tokens, call.swap.token_in)) =>
              call.result = TokenInNotFound

-----------------------------------------------------------------------------
(* C6 *)

\* every encoder new() can build from the executors, chains and configs
AllEncoders ==
    {new(e, chain, config).val :
        e \in Executors, chain \in Chains, config \in Configs}

\* C6: the result depends only on the pool id, the token list, the two
\* tokens, the receiver and the transfer type: the call made returns what
\* encode_swap returns on the same six for every encoder (executor, chain,
\* config) and every router address, exact-out flag, group tokens and
\* historical-trade flag.
C6_PureInSerialisedFields ==
    Done =>
        \A enc \in AllEncoders, meta \in RoutingMeta :
            encode_swap(enc, call.swap,
                        Context(call.ctx.receiver, call.ctx.transfer_type,
                                meta))
                = call.result

\* a successful call of the test's swap on the other executor's encoder
C6_Witness ==
    /\ Done
    /\ call.result.ok
    /\ encoders[1].executor_address = OtherExecutor
    /\ call.ctx.router_address # None
    /\ call.swap.component.tokens = TestTokens

-----------------------------------------------------------------------------
(* C10 *)

\* the list with every x replaced by y and every y by x
Exchange(list, x, y) ==
    [i \in 1..Len(list) |->
        IF list[i] = x THEN y ELSE IF list[i] = y THEN x ELSE list[i]]

\* the index get_token_indexes resolves for token x against list
Resolved(list, x) ==
    get_token_indexes(encoders[1],
                      [component |-> [id |-> call.swap.component.id,
                                      tokens |-> list],
                       token_in |-> x, token_out |-> x]).val[2]

\* the claim for the call's two tokens
PositionalHolds ==
    LET list == call.swap.component.tokens
        a == call.swap.token_in
        b == call.swap.token_out
        r == get_token_indexes(encoders[1], call.swap)
        exchanged == Exchange(list, a, b)
    IN  /\ r.ok
        /\ r.val[2] = InPlace
        /\ r.val[3] = OutPlace
        /\ Resolved(exchanged, a) = Resolved(list, b)
        /\ Resolved(exchanged, b) = Resolved(list, a)
        /\ \A z \in (TokensIn \cup TokensOut) \ {a, b} :
              Present(list, z) => Resolved(exchanged, z) = Resolved(list, z)

\* C10: the index resolved for a token is its first position in the list,
\* also when the address occurs more than once; exchanging two tokens in the
\* list exchanges their resolved indices and leaves the other tokens' alone.
C10_Positional ==
    (Done /\ BothPresent) => PositionalHolds

\* the same, for tokens whose positions are below 256
C10_PositionalInByteRange ==
    (Done /\ BothPresent /\ InPlace < 256 /\ OutPlace < 256)
        => PositionalHolds

-----------------------------------------------------------------------------
(* Threads sharing the encoder and its clones: construction, clone_box,     *)
(* executor_address, and encode_swap statement by statement                 *)

Threads == {"t1", "t2"}

SwapOf(id, tokens, a, b) ==
    [component |-> [id |-> id, tokens |-> tokens],
     token_in |-> a, token_out |-> b]

\* one call per outcome: success, id not hex, id of 19 bytes, input token
\* absent, output token absent
ThreadSwaps ==
    {SwapOf(IdTest, TestTokens, USDC, WSOL),
     SwapOf(IdNonHex, TestTokens, USDC, WSOL),
     SwapOf(IdShort, <<USDC, WSOL>>, USDC, WSOL),
     SwapOf(IdTest, <<USDC, WSOL>>, USDT, WSOL),
     SwapOf(IdLower, <<WSOL, USDC>>, USDC, USDT)}

ThreadContexts ==
    {Context(BOB, "Transfer", TestMeta), Context(ALICE, "None", OtherMeta)}

InitConc ==
    /\ encoders = <<>>
    /\ built = <<>>
    /\ call = Idle
    /\ th = [t \in Threads |-> Idle]
    /\ got = None

\* LiquidityPartySwapEncoder::new(executor_address, chain, config)
Construct ==
    /\ encoders = <<>>
    /\ \E e \in Executors, chain \in Chains, config \in Configs :
          LET r == new(e, chain, config)
          IN  /\ r.ok
              /\ encoders' = <<r.val>>
              /\ built' = <<e>>
    /\ UNCHANGED <<call, th, got>>

\* clone_box() on instance i
CloneBox(i) ==
    /\ Len(encoders) < 1 + MaxClones
    /\ encoders' = Append(encoders, clone_box(encoders[i]))
    /\ UNCHANGED <<built, call, th, got>>

\* executor_address() on instance i
ExecutorAddress(i) ==
    /\ got' = Some([inst |-> i, addr |-> executor_address(encoders[i])])
    /\ UNCHANGED <<encoders, built, call, th>>

\* thread t enters encode_swap on instance i
Begin(t, i) ==
    /\ th[t].pc = "idle"
    /\ \E swap \in ThreadSwaps, ctx \in ThreadContexts :
          th' = [th EXCEPT ![t] =
                    [pc |-> "parse", self |-> i, swap |-> swap, ctx |-> ctx,
                     pool_addr |-> <<>>, in_pos |-> None, idx |-> <<>>,
                     result |-> None]]
    /\ UNCHANGED <<encoders, built, call, got>>

\* let pool_addr = Address::from_str(&swap.component().id).map_err(..)?
ParseStep(t) ==
    LET r == FromStr(th[t].swap.component.id)
    IN  IF r.ok THEN [th[t] EXCEPT !.pc = "token_in", !.pool_addr = r.val]
        ELSE [th[t] EXCEPT !.pc = "done", !.result = Some(InvalidComponentId)]

\* let token_in_idx = token_addresses.iter().position(..).ok_or(..)?
ResolveInStep(t) ==
    LET p == Position(th[t].swap.component.tokens, th[t].swap.token_in)
    IN  IF p = None
        THEN [th[t] EXCEPT !.pc = "done", !.result = Some(TokenInNotFound)]
        ELSE [th[t] EXCEPT !.pc = "token_out", !.in_pos = p]

\* let token_out_idx = ..position(..).ok_or(..)?; Ok((token_in.clone(), ..))
ResolveOutStep(t) ==
    LET p == Position(th[t].swap.component.tokens, th[t].swap.token_out)
    IN  IF p = None
        THEN [th[t] EXCEPT !.pc = "done", !.result = Some(TokenOutNotFound)]
        ELSE [th[t] EXCEPT !.pc = "pack",
                           !.idx = <<th[t].swap.token_in,
                                     IndexCast(th[t].in_pos[1]),
                                     IndexCast(p[1])>>]

\* the thread's locals, held by another thread too when that one has them
PackStep_SharedLocals(t) ==
    LET others == {u \in Threads \ {t} : th[u].pc = "pack"}
        src == IF others = {} THEN t ELSE CHOOSE u \in others : TRUE
    IN  [th[t] EXCEPT
            !.pc = "done",
            !.result = Some(PackArgs(SwapArgs(encoders[th[t].self],
                                              th[src].pool_addr,
                                              th[src].idx, th[t].ctx)))]

\* let args = (..); Ok(args.abi_encode_packed())
PackStep(t) ==
    [th[t] EXCEPT
        !.pc = "done",
        !.result = Some(PackArgs(SwapArgs(encoders[th[t].self],
                                          th[t].pool_addr,
                                          th[t].idx, th[t].ctx)))]

ParseId(t) ==
    /\ th[t].pc = "parse"
    /\ th' = [th EXCEPT ![t] = ParseStep(t)]
    /\ UNCHANGED <<encoders, built, call, got>>

ResolveIn(t) ==
    /\ th[t].pc = "token_in"
    /\ th' = [th EXCEPT ![t] = ResolveInStep(t)]
    /\ UNCHANGED <<encoders, built, call, got>>

ResolveOut(t) ==
    /\ th[t].pc = "token_out"
    /\ th' = [th EXCEPT ![t] = ResolveOutStep(t)]
    /\ UNCHANGED <<encoders, built, call, got>>

Pack(t) ==
    /\ th[t].pc = "pack"
    /\ th' = [th EXCEPT ![t] = PackStep(t)]
    /\ UNCHANGED <<encoders, built, call, got>>

\* the thread's caller takes the result
Finish(t) ==
    /\ th[t].pc = "done"
    /\ th' = [th EXCEPT ![t] = Idle]
    /\ UNCHANGED <<encoders, built, call, got>>

NextConc ==
    \/ Construct
    \/ \E i \in 1..Len(encoders) : CloneBox(i)
    \/ \E i \in 1..Len(encoders) : ExecutorAddress(i)
    \/ \E t \in Threads, i \in 1..Len(encoders) : Begin(t, i)
    \/ \E t \in Threads : ParseId(t)
    \/ \E t \in Threads : ResolveIn(t)
    \/ \E t \in Threads : ResolveOut(t)
    \/ \E t \in Threads : Pack(t)
    \/ \E t \in Threads : Finish(t)

SpecConc == InitConc /\ [][NextConc]_vars

-----------------------------------------------------------------------------
(* C7 *)

\* C7: construction succeeds for every executor, chain and config, and in
\* every state every instance, the constructed one and each clone, holds
\* the executor address given to new(), and executor_address() returned it.
C7_ExecutorAddressKept ==
    /\ \A e \in Executors, chain \in Chains, config \in Configs :
          new(e, chain, config).ok
    /\ \A i \in 1..Len(encoders) :
          executor_address(encoders[i]) = built[1]
    /\ got # None => got[1].addr = built[1]

\* executor_address() was called on a clone while one thread's call has
\* failed and another thread's call has succeeded
C7_Witness ==
    /\ Len(encoders) > 1
    /\ got # None
    /\ got[1].inst = Len(encoders)
    /\ \E t, u \in Threads :
          /\ th[t].pc = "done" /\ ~th[t].result[1].ok
          /\ th[u].pc = "done" /\ th[u].result[1].ok

-----------------------------------------------------------------------------
(* C8 *)

\* C8: under every interleaving, a thread's finished call holds the result
\* encode_swap gives on its inputs alone, and no step of a call changes an
\* encoder.
C8_ThreadsDoNotInterfere ==
    /\ [](\A t \in Threads :
            th[t].pc = "done" =>
                th[t].result[1] =
                    encode_swap(encoders[th[t].self], th[t].swap, th[t].ctx))
    /\ [][(th' # th) => (encoders' = encoders)]_vars

\* both threads are inside encode_swap on the same instance with different
\* swaps, one already past token resolution
C8_Witness ==
    /\ th["t1"].pc = "pack"
    /\ th["t2"].pc = "token_out"
    /\ th["t1"].self = th["t2"].self
    /\ th["t1"].swap # th["t2"].swap

=============================================================================
